---- MODULE Spec2Model ----
(***************************************************************************)
(* Symbol and structure resolution of icebox: the program-database backend *)
(* (src/fdp_exec/sym/pdb.cpp) with its symbol index and its signature      *)
(* scanner, and the DIE-tree backend (src/icebox/icebox/sym/dwarf.cpp).    *)
(***************************************************************************)
EXTENDS Integers, Sequences, FiniteSets, TLC

(***************************************************************************)
(* Bounds of the model.                                                    *)
(***************************************************************************)
\* longest backend variable list handed to Pdb::setup
MaxGlobals == 3
\* largest section-relative address of a global variable
MaxRva == 2
\* width, in bits, of the model's address word (uint64_t in the code)
AddrBits == 3
\* longest member list of a structure DIE, longest list of top-level DIEs
MaxMembers == 2
\* activations of get_structure the machine stack holds
StackLimit == 5
\* longest module name of a debug record in a scanned image
MaxNameLen == 2

AddrSpace == 2 ^ AddrBits
Addrs == 0 .. (AddrSpace - 1)

\* static const int BASE_ADDRESS = 0x80000000: the image base handed to the
\* backend, here the top bit of the model's address word.
BASE_ADDRESS == AddrSpace \div 2

Names == {"a", "b"}

NotFound == [kind |-> "nullopt"]
\* what a read through an invalid iterator may yield besides a value
Fault == [kind |-> "fault"]

VARIABLES
    backend,            \* which implementation of sym::IMod was asked for
    arg_span,           \* the span handed to the factory
    pc,                 \* "new", "ready" (factory returned a module), "failed"
    span_,              \* Pdb::span_
    globals,            \* pdb_.get_global_variables(), in iteration order
    symbols_,           \* Pdb::symbols_
    symbols_by_offset,  \* Pdb::symbols_by_offset
    types,              \* pdb_.get_types_container()
    top_dies,           \* the children of the compilation units of the file
    kids,               \* the children of every DIE of the file
    structures,         \* Dwarf::structures
    call,               \* the query of the DIE-tree backend in progress
    stack,              \* the activations of get_structure, innermost last
    ret,                \* the last query and what it returned
    buf,                \* the bytes [vsrc, vsrc + src_size) handed to read_pdb
    beyond,             \* the memory that follows the buffer
    src,                \* read_pdb: src, as an offset into the buffer
    src_size,           \* read_pdb: src_size
    rsds,               \* read_pdb: rsds, as an offset into the buffer (-1: null)
    name_end,           \* read_pdb: name_end, likewise
    scan_pc,            \* where read_pdb is: "off", "search", "found", "scanned",
                        \* or how it ended: "done", "failed", "fault"
    ctx                 \* the PdbCtx returned

pdbVars == <<globals, symbols_, symbols_by_offset, types>>
dwarfVars == <<top_dies, kids, structures>>
scanVars == <<buf, beyond, src, src_size, rsds, name_end, scan_pc, ctx>>
modVars == <<backend, arg_span, pc, span_, pdbVars, dwarfVars, call, stack, ret,
             scanVars>>

(***************************************************************************)
(* Program-database backend: the symbol index.                             *)
(***************************************************************************)
Wrap(x) == (x + 4 * AddrSpace) % AddrSpace

\* a faulty variant: the load base is not taken off
get_offset_nobase(sp, var) == Wrap(sp.addr + var.address)

get_offset(sp, var) == Wrap(sp.addr + var.address - BASE_ADDRESS)

EmptyMap == [k \in {} |-> NotFound]

\* insert_or_assign: the last record of a key wins
Assign(m, k, v) == [x \in (DOMAIN m) \cup {k} |-> IF x = k THEN v ELSE m[x]]

\* std::map::emplace, std::unordered_map::emplace: a key already present
\* keeps its value
Emplace(m, k, v) ==
    IF k \in DOMAIN m THEN m
    ELSE [x \in (DOMAIN m) \cup {k} |-> IF x = k THEN v ELSE m[x]]

\* the loop of Pdb::setup over the first n variables
RECURSIVE setup_symbols(_, _)
setup_symbols(gs, n) ==
    IF n = 0 THEN EmptyMap
    ELSE Emplace(setup_symbols(gs, n - 1), gs[n].name, gs[n])

RECURSIVE setup_by_offset(_, _, _)
setup_by_offset(sp, gs, n) ==
    IF n = 0 THEN EmptyMap
    ELSE Emplace(setup_by_offset(sp, gs, n - 1), get_offset(sp, gs[n]), gs[n])

\* Pdb::symbol(const std::string&)
symbol_by_name(sp, syms, name) ==
    IF name \notin DOMAIN syms THEN NotFound
    ELSE [kind |-> "addr", addr |-> get_offset(sp, syms[name])]

Min(S) == CHOOSE x \in S : \A y \in S : x <= y
Max(S) == CHOOSE x \in S : \A y \in S : y <= x

\* make_cursor on a valid, non-end iterator
make_cursor(sp, rec, addr) ==
    [kind |-> "cursor", symbol |-> rec.name,
     offset |-> Wrap(addr - get_offset(sp, rec))]

\* the keys from std::map::lower_bound(addr) to end()
lower_bound(m, addr) == {k \in DOMAIN m : k >= addr}

\* a faulty variant: the entry lower_bound finds is used even when its key is greater
symbol_by_addr_nostep(sp, m, addr) ==
    LET ge == lower_bound(m, addr) IN
    IF ge = {} THEN
        IF DOMAIN m = {} THEN {NotFound}
        ELSE {make_cursor(sp, m[Max(DOMAIN m)], addr)}
    ELSE {make_cursor(sp, m[Min(ge)], addr)}

\* Pdb::symbol(uint64_t): the set of results the call may produce.  It is a
\* singleton, except where the code decrements begin(), which is undefined:
\* the iterator may then equal end() (nullopt), designate any node of the
\* tree, or be read through as garbage.
symbol_by_addr(sp, m, addr) ==
    LET ge == lower_bound(m, addr) IN
    IF ge = {} THEN
        \* make_cursor(rbegin(), rend())
        IF DOMAIN m = {} THEN {NotFound}
        ELSE {make_cursor(sp, m[Max(DOMAIN m)], addr)}
    ELSE IF Min(ge) = addr THEN {make_cursor(sp, m[addr], addr)}
    ELSE LET lt == {k \in DOMAIN m : k < Min(ge)} IN
         IF lt = {} THEN
             {NotFound, Fault} \cup {make_cursor(sp, m[k], addr) : k \in DOMAIN m}
         ELSE {make_cursor(sp, m[Max(lt)], addr)}

(***************************************************************************)
(* Program-database backend: structures.                                   *)
(***************************************************************************)
\* get_type_by_name of the backend's types container: the first type of
\* that name, 0 when there is none
get_type_by_name(ts, name) ==
    LET hits == {i \in 1 .. Len(ts) : ts[i].name = name} IN
    IF hits = {} THEN 0 ELSE Min(hits)

\* get_struc: 0 stands for nullptr
get_struc(ts, struc) ==
    LET type == get_type_by_name(ts, struc) IN
    IF type = 0 THEN 0
    ELSE IF ts[type].type_class # "PDBTYPE_STRUCT" THEN 0
    ELSE type

\* Pdb::struc_size
pdb_struc_size(ts, struc) ==
    LET stype == get_struc(ts, struc) IN
    IF stype = 0 THEN NotFound
    ELSE [kind |-> "size", size |-> ts[stype].size_bytes]

\* Pdb::struc_offset
pdb_struc_offset(ts, struc, member) ==
    LET stype == get_struc(ts, struc) IN
    IF stype = 0 THEN NotFound
    ELSE LET ms == ts[stype].struct_members
             hits == {i \in 1 .. Len(ms) : ms[i].name = member} IN
         IF hits = {} THEN NotFound
         ELSE [kind |-> "offset", offset |-> ms[Min(hits)].offset]

(***************************************************************************)
(* DIE-tree backend.  A DIE is named by an identifier; Die gives the       *)
(* attributes libdwarf reports for it, kids (a variable) its children.     *)
(***************************************************************************)
NoLoc == [form |-> "none", value |-> 0]
Udata(n) == [form |-> "DW_FORM_udata", value |-> n]

MkDie(tag, named, name, typed, type, sized, size, loc) ==
    [tag |-> tag, named |-> named, name |-> name, typed |-> typed, type |-> type,
     sized |-> sized, size |-> size, loc |-> loc]

Die(id) ==
    CASE id = "S"   -> MkDie("DW_TAG_structure_type", TRUE, "S", FALSE, "", TRUE, 8, NoLoc)
      [] id = "A"   -> MkDie("DW_TAG_structure_type", FALSE, "", FALSE, "", TRUE, 4, NoLoc)
      [] id = "B"   -> MkDie("DW_TAG_union_type", FALSE, "", FALSE, "", TRUE, 2, NoLoc)
      [] id = "int" -> MkDie("DW_TAG_base_type", TRUE, "int", FALSE, "", TRUE, 4, NoLoc)
      [] id = "tdS" -> MkDie("DW_TAG_typedef", TRUE, "S", TRUE, "S", FALSE, 0, NoLoc)
      [] id = "m0"  -> MkDie("DW_TAG_member", TRUE, "m", TRUE, "int", FALSE, 0, Udata(0))
      [] id = "m4"  -> MkDie("DW_TAG_member", TRUE, "m", TRUE, "int", FALSE, 0, Udata(4))
      [] id = "x"   -> MkDie("DW_TAG_member", TRUE, "x", TRUE, "int", FALSE, 0,
                             [form |-> "DW_FORM_sdata", value |-> 2])
      [] id = "uA"  -> MkDie("DW_TAG_member", FALSE, "", TRUE, "A", FALSE, 0, Udata(4))
      [] id = "uB"  -> MkDie("DW_TAG_member", FALSE, "", TRUE, "B", FALSE, 0, Udata(0))
      [] id = "uS"  -> MkDie("DW_TAG_member", FALSE, "", TRUE, "S", FALSE, 0, Udata(0))
      [] id = "pad" -> MkDie("DW_TAG_member", FALSE, "", FALSE, "", FALSE, 0, NoLoc)

DieIds == {"S", "A", "B", "int", "tdS", "m0", "m4", "x", "uA", "uB", "uS", "pad"}
StructNames == {"S", "int", "T"}
MemberNames == {"m", "x"}

\* get_attr_member_location
get_attr_member_location(d) ==
    LET loc == Die(d).loc IN
    CASE loc.form = "none" -> NotFound
      [] loc.form \in {"DW_FORM_data1", "DW_FORM_data2", "DW_FORM_data4",
                       "DW_FORM_data8", "DW_FORM_udata"} ->
            [kind |-> "offset", offset |-> loc.value]
      [] loc.form = "DW_FORM_sdata" ->
            IF loc.value < 0 THEN NotFound
            ELSE [kind |-> "offset", offset |-> loc.value]
      [] loc.form = "DW_OP_plus_uconst" -> [kind |-> "offset", offset |-> loc.value]
      [] OTHER -> NotFound

\* struc_size_internal
struc_size_internal(d) ==
    IF Die(d).sized THEN [kind |-> "size", size |-> Die(d).size] ELSE NotFound

Frame(name, coll, pass) == [name |-> name, coll |-> coll, i |-> 1, pass |-> pass]
NoCall == [op |-> "none", struc |-> "", member |-> "", phase |-> 0]

Top == stack[Len(stack)]
\* the DIE the innermost loop of get_structure is at
Cur == Top.coll[Top.i]
InLoop == stack # <<>> /\ pc = "ready" /\ Top.i <= Len(Top.coll)
\* the loop's test for an anonymous structure to pass through
Anonymous == Top.pass /\ ~Die(Cur).named
Advance(f) == [f EXCEPT !.i = @ + 1]

(***************************************************************************)
(* The inputs: what the caller passes and what the debug files hold.       *)
(***************************************************************************)
NoSpan == [addr |-> 0, size |-> 0]
Spans == [addr : {0, 1, 3}, size : {BASE_ADDRESS}]
NoAnswer == [op |-> "none", name |-> "", member |-> "", addr |-> 0, val |-> NotFound]

GlobalVars == [name : Names, address : {BASE_ADDRESS + r : r \in 0 .. MaxRva}]
Lists(S, n) == UNION {[1 .. k -> S] : k \in 0 .. n}
\* the lists without repetition
Distinct(S, n) == {q \in Lists(S, n) : \A i, j \in 1 .. Len(q) : q[i] = q[j] => i = j}

PdbTypes ==
    {[name |-> "S", type_class |-> "PDBTYPE_STRUCT", size_bytes |-> 8,
      struct_members |-> <<[name |-> "m", offset |-> 0], [name |-> "x", offset |-> 4]>>],
     [name |-> "int", type_class |-> "PDBTYPE_BASE", size_bytes |-> 4,
      struct_members |-> <<>>],
     [name |-> "T", type_class |-> "PDBTYPE_UNION", size_bytes |-> 2,
      struct_members |-> <<[name |-> "m", offset |-> 0]>>]}

NoKids == [d \in DieIds |-> <<>>]
KidsOf(s, a, b) ==
    [d \in DieIds |-> CASE d = "S" -> s [] d = "A" -> a [] d = "B" -> b [] OTHER -> <<>>]
DieGraphs ==
    {KidsOf(s, a, b) : s \in Distinct({"m0", "pad", "uA", "uS"}, MaxMembers),
                       a \in Distinct({"m4", "uB"}, MaxMembers),
                       b \in Distinct({"m4", "uA"}, MaxMembers)}

InitPdbFile(gs) ==
    /\ backend = "pdb"
    /\ globals \in gs
    /\ top_dies = <<>>
    /\ kids = NoKids

InitDwarfFile ==
    /\ backend = "dwarf"
    /\ globals = <<>>
    /\ types = <<>>
    /\ top_dies \in Distinct({"S", "int", "tdS"}, MaxMembers)
    /\ kids \in (IF \E i \in 1 .. Len(top_dies) : top_dies[i] = "S"
                 THEN DieGraphs ELSE {NoKids})

InitObject ==
    /\ pc = "new"
    /\ span_ = NoSpan
    /\ symbols_ = EmptyMap
    /\ symbols_by_offset = EmptyMap
    /\ structures = <<>>
    /\ call = NoCall
    /\ stack = <<>>
    /\ ret = NoAnswer

\* the memory after the buffer, as long as nothing has read it
Unread == [read |-> FALSE, mapped |-> FALSE, bytes |-> <<>>]

\* no buffer is being scanned
InitNoScan ==
    /\ buf = <<>>
    /\ beyond = Unread
    /\ src = 0
    /\ src_size = 0
    /\ rsds = -1
    /\ name_end = -1
    /\ scan_pc = "off"
    /\ ctx = [guid |-> <<>>, name |-> <<>>]

Init ==
    /\ \/ InitPdbFile(Lists(GlobalVars, 1)) /\ types \in Distinct(PdbTypes, MaxMembers)
       \/ InitDwarfFile
    /\ arg_span \in Spans
    /\ InitObject
    /\ InitNoScan

InitIndex ==
    /\ InitPdbFile(Lists(GlobalVars, MaxGlobals))
    /\ types = <<>>
    /\ arg_span \in Spans
    /\ InitObject
    /\ InitNoScan

(***************************************************************************)
(* The factories.                                                          *)
(***************************************************************************)
Answer(op, name, member, addr, val) ==
    [op |-> op, name |-> name, member |-> member, addr |-> addr, val |-> val]

\* sym::make_pdb(span, module, guid): the constructor, then Pdb::setup
MakePdb ==
    /\ pc = "new" /\ backend = "pdb"
    /\ span_' = arg_span
    /\ \E load_ok \in BOOLEAN :
          IF load_ok
          THEN /\ symbols_' = setup_symbols(globals, Len(globals))
               /\ symbols_by_offset' = setup_by_offset(arg_span, globals, Len(globals))
               /\ pc' = "ready"
          ELSE /\ UNCHANGED <<symbols_, symbols_by_offset>>
               /\ pc' = "failed"
    /\ UNCHANGED <<backend, arg_span, globals, types, dwarfVars, call, stack, ret, scanVars>>

\* sym::make_dwarf(span, module, guid): the constructor, then Dwarf::setup;
\* the span is not kept
MakeDwarf ==
    /\ pc = "new" /\ backend = "dwarf"
    /\ \E load_ok \in BOOLEAN :
          IF load_ok
          THEN /\ structures' = top_dies
               /\ pc' = IF top_dies = <<>> THEN "failed" ELSE "ready"
          ELSE /\ UNCHANGED structures
               /\ pc' = "failed"
    /\ UNCHANGED <<backend, arg_span, span_, pdbVars, top_dies, kids, call, stack, ret, scanVars>>

(***************************************************************************)
(* The queries of the program-database backend.                            *)
(***************************************************************************)
Idle(b) == pc = "ready" /\ backend = b /\ stack = <<>>
Returns(r) ==
    /\ ret' = r
    /\ UNCHANGED <<backend, arg_span, pc, span_, pdbVars, dwarfVars, call, stack, scanVars>>

\* Pdb::span
PdbSpan ==
    /\ Idle("pdb")
    /\ Returns(Answer("span", "", "", 0, [kind |-> "span", span |-> span_]))

PdbSymbolByName ==
    /\ Idle("pdb")
    /\ \E n \in Names :
          Returns(Answer("symbol_name", n, "", 0, symbol_by_name(span_, symbols_, n)))

PdbSymbolByAddr ==
    /\ Idle("pdb")
    /\ \E a \in Addrs : \E r \in symbol_by_addr(span_, symbols_by_offset, a) :
          Returns(Answer("symbol_addr", "", "", a, r))

PdbStrucSize ==
    /\ Idle("pdb")
    /\ \E n \in StructNames :
          Returns(Answer("struc_size", n, "", 0, pdb_struc_size(types, n)))

PdbStrucOffset ==
    /\ Idle("pdb")
    /\ \E n \in StructNames, m \in MemberNames :
          Returns(Answer("struc_offset", n, m, 0, pdb_struc_offset(types, n, m)))

(***************************************************************************)
(* The queries of the DIE-tree backend.                                    *)
(***************************************************************************)
\* Dwarf::span
DwarfSpan ==
    /\ Idle("dwarf")
    /\ Returns(Answer("span", "", "", 0, [kind |-> "span", span |-> NoSpan]))

\* Dwarf::symbol(const std::string&)
DwarfSymbolByName ==
    /\ Idle("dwarf")
    /\ \E n \in Names : Returns(Answer("symbol_name", n, "", 0, NotFound))

\* Dwarf::symbol(uint64_t)
DwarfSymbolByAddr ==
    /\ Idle("dwarf")
    /\ \E a \in Addrs : Returns(Answer("symbol_addr", "", "", a, NotFound))

\* a query that is running has returned nothing yet
Calls(c, f) ==
    /\ call' = c
    /\ stack' = <<f>>
    /\ ret' = NoAnswer
    /\ UNCHANGED <<backend, arg_span, pc, span_, pdbVars, dwarfVars, scanVars>>

\* Dwarf::struc_size, up to its call of get_structure(*this, struc)
DwarfStrucSize ==
    /\ Idle("dwarf")
    /\ \E n \in StructNames :
          Calls([op |-> "struc_size", struc |-> n, member |-> "", phase |-> 1],
                Frame(n, structures, FALSE))

\* Dwarf::struc_offset, up to its call of get_structure(*this, struc)
DwarfStrucOffset ==
    /\ Idle("dwarf")
    /\ \E n \in StructNames, m \in MemberNames :
          Calls([op |-> "struc_offset", struc |-> n, member |-> m, phase |-> 1],
                Frame(n, structures, FALSE))

\* the query ends with r
Finish(r) ==
    /\ ret' = Answer(call.op, call.struc, call.member, 0, r)
    /\ call' = NoCall
    /\ stack' = <<>>
    /\ UNCHANGED <<backend, arg_span, pc, span_, pdbVars, dwarfVars, scanVars>>

\* get_structure, one turn of the loop that neither returns nor descends:
\* a nameless DIE that is not passed through or has no type, or another name
GsContinue ==
    /\ InLoop
    /\ IF Anonymous THEN ~Die(Cur).typed
       ELSE ~Die(Cur).named \/ Die(Cur).name # Top.name
    /\ stack' = [stack EXCEPT ![Len(stack)] = Advance(@)]
    /\ UNCHANGED <<backend, arg_span, pc, span_, pdbVars, dwarfVars, call, ret,
                          scanVars>>

\* get_structure, the recursive call on the children of the type of an
\* anonymous member; nothing bounds the depth, and the machine stack ends
GsDescend ==
    /\ InLoop
    /\ Anonymous /\ Die(Cur).typed
    /\ IF Len(stack) < StackLimit
       THEN /\ stack' = Append(stack, Frame(Top.name, kids[Die(Cur).type], TRUE))
            /\ pc' = pc
       ELSE /\ stack' = stack
            /\ pc' = "overflow"
    /\ UNCHANGED <<backend, arg_span, span_, pdbVars, dwarfVars, call, ret, scanVars>>

\* get_structure finds the name: every activation returns the DIE, and the
\* query goes on with it
GsFound ==
    /\ InLoop
    /\ ~Anonymous /\ Die(Cur).named /\ Die(Cur).name = Top.name
    /\ CASE call.op = "struc_size" -> Finish(struc_size_internal(Cur))
         [] call.op = "struc_offset" /\ call.phase = 1 ->
              \* read_children, then get_structure(*this, member, children, true)
              /\ call' = [call EXCEPT !.phase = 2]
              /\ stack' = <<Frame(call.member, kids[Cur], TRUE)>>
              /\ UNCHANGED <<backend, arg_span, pc, span_, pdbVars, dwarfVars, ret, scanVars>>
         [] call.op = "struc_offset" /\ call.phase = 2 ->
              Finish(get_attr_member_location(Cur))

\* get_structure leaves its loop: the caller's loop goes on, and the
\* outermost caller, the query, returns {}
GsNotFound ==
    /\ stack # <<>> /\ pc = "ready"
    /\ Top.i > Len(Top.coll)
    /\ IF Len(stack) = 1 THEN Finish(NotFound)
       ELSE /\ stack' = [SubSeq(stack, 1, Len(stack) - 1)
                            EXCEPT ![Len(stack) - 1] = Advance(@)]
            /\ UNCHANGED <<backend, arg_span, pc, span_, pdbVars, dwarfVars, call, ret,
                          scanVars>>

NextIndex == MakePdb \/ PdbSymbolByName \/ PdbSymbolByAddr

Next ==
    \/ MakePdb \/ PdbSpan \/ PdbSymbolByName \/ PdbSymbolByAddr
    \/ PdbStrucSize \/ PdbStrucOffset
    \/ MakeDwarf \/ DwarfSpan \/ DwarfSymbolByName \/ DwarfSymbolByAddr
    \/ DwarfStrucSize \/ DwarfStrucOffset
    \/ GsContinue \/ GsDescend \/ GsFound \/ GsNotFound

Spec == Init /\ [][Next]_modVars
SpecIndex == InitIndex /\ [][NextIndex]_modVars

(***************************************************************************)
(* The symbol index (SpecIndex).                                           *)
(***************************************************************************)
Index == symbols_by_offset
Built == pc = "ready" /\ backend = "pdb"
\* the runtime offset of a variable of the list: static_address - load base +
\* span.addr
RuntimeAddr(var) == arg_span.addr + (var.address - BASE_ADDRESS)
Listed(name, addr) ==
    \E i \in 1 .. Len(globals) : globals[i].name = name /\ RuntimeAddr(globals[i]) = addr
LookedUpAt == Built /\ ret.op = "symbol_addr"

\* C1: an address at or above the smallest indexed address resolves to the
\* symbol stored at the greatest indexed address s <= a, with offset a - s;
\* that symbol is a variable of the list whose runtime address is s.
C1_NearestAtOrBelow ==
    (LookedUpAt /\ \E k \in DOMAIN Index : k <= ret.addr) =>
        LET s == Max({k \in DOMAIN Index : k <= ret.addr}) IN
        /\ ret.val = [kind |-> "cursor", symbol |-> Index[s].name,
                      offset |-> ret.addr - s]
        /\ Listed(ret.val.symbol, s)

\* C1: a lookup strictly between two indexed addresses has answered
C1_Witness ==
    /\ LookedUpAt
    /\ \E s1, s2 \in DOMAIN Index : s1 < ret.addr /\ ret.addr < s2
    /\ ret.val.kind = "cursor" /\ ret.val.offset > 0

\* C3: below the smallest indexed address the lookup still names an indexed
\* symbol; it is not-found only on an empty index.
C3_BelowFirstNamesSymbol ==
    LookedUpAt =>
        IF DOMAIN Index = {} THEN ret.val = NotFound
        ELSE (\A k \in DOMAIN Index : ret.addr < k) =>
                /\ ret.val.kind = "cursor"
                /\ \E k \in DOMAIN Index : ret.val.symbol = Index[k].name

FoundByName == Built /\ ret.op = "symbol_name" /\ ret.val.kind = "addr"
SharedAddress ==
    \E i, j \in 1 .. Len(globals) :
        i # j /\ RuntimeAddr(globals[i]) = RuntimeAddr(globals[j])
SharedName ==
    \E i, j \in 1 .. Len(globals) : i # j /\ globals[i].name = globals[j].name
\* the first variable of the list at a runtime address
FirstAt(addr) == Min({i \in 1 .. Len(globals) : RuntimeAddr(globals[i]) = addr})
FirstNamed(name) == Min({i \in 1 .. Len(globals) : globals[i].name = name})

KindsNamed(n) ==
    IF backend = "pdb"
    THEN {types[i].type_class : i \in {j \in 1 .. Len(types) : types[j].name = n}}
    ELSE {Die(structures[i]).tag :
            i \in {j \in 1 .. Len(structures) :
                     Die(structures[j]).named /\ Die(structures[j]).name = n}}
StructKinds == {"PDBTYPE_STRUCT", "DW_TAG_structure_type"}
\* the declared sizes of the structures of a name
StructSizesNamed(n) ==
    IF backend = "pdb"
    THEN {types[i].size_bytes :
            i \in {j \in 1 .. Len(types) :
                     types[j].name = n /\ types[j].type_class \in StructKinds}}
    ELSE {Die(structures[i]).size :
            i \in {j \in 1 .. Len(structures) :
                     /\ Die(structures[j]).named /\ Die(structures[j]).name = n
                     /\ Die(structures[j]).tag \in StructKinds}}

\* C6: struct_size is not-found when no record of the name is of structure
\* kind, and the declared size when the records of the name are structures.
C6_StrucSizeOfStructuresOnly ==
    (pc = "ready" /\ ret.op = "struc_size") =>
        /\ KindsNamed(ret.name) \cap StructKinds = {} => ret.val = NotFound
        /\ (KindsNamed(ret.name) # {} /\ KindsNamed(ret.name) \subseteq StructKinds) =>
              /\ ret.val.kind = "size"
              /\ ret.val.size \in StructSizesNamed(ret.name)

\* C7: span() of a constructed module returns the span it was made with.
C7_SpanIsTheGivenSpan ==
    (pc = "ready" /\ ret.op = "span") => ret.val = [kind |-> "span", span |-> arg_span]

\* the structure DIE a finished struc_offset query searched: the first
\* top-level DIE of the name
Searched ==
    structures[Min({i \in 1 .. Len(structures) :
                      Die(structures[i]).named /\ Die(structures[i]).name = ret.name})]
\* the offsets of its direct members of the name asked for
DirectOffsets ==
    {get_attr_member_location(kids[Searched][i]) :
        i \in {j \in 1 .. Len(kids[Searched]) :
                 /\ Die(kids[Searched][j]).named
                 /\ Die(kids[Searched][j]).name = ret.member}}
OffsetAnswered ==
    /\ backend = "dwarf" /\ pc = "ready" /\ ret.op = "struc_offset"
    /\ \E i \in 1 .. Len(structures) :
          Die(structures[i]).named /\ Die(structures[i]).name = ret.name

\* C9: a direct member of the name wins over the members of anonymous nested
\* structures, whatever the declaration order.
C9_DirectMemberFirst ==
    (OffsetAnswered /\ DirectOffsets # {}) => ret.val \in DirectOffsets

\* C10: the search of struct_offset ends with an offset or not-found on
\* every type graph: it never runs out of stack.
C10_SearchEnds == pc # "overflow"

(***************************************************************************)
(* The signature scanner: read_pdb.  Offsets count from the start of the   *)
(* buffer; a string is the sequence of its character codes.                *)
(***************************************************************************)
rsds_magic == <<82, 83, 68, 83>>

\* the byte at an offset: of the buffer, or of the memory that follows it
Byte(i) == IF i < Len(buf) THEN buf[i + 1] ELSE beyond.bytes[i - Len(buf) + 1]
\* whether the offset can be read at all
Readable(i) == i < Len(buf) \/ (beyond.mapped /\ i - Len(buf) < Len(beyond.bytes))

\* search(&src[0], &src[src_size], rsds_pattern): the first occurrence of the
\* pattern inside [from, from + size), -1 for a null result
search(from, size) ==
    LET hits == {p \in from .. (from + size - Len(rsds_magic)) :
                    \A k \in 1 .. Len(rsds_magic) : Byte(p + k - 1) = rsds_magic[k]} IN
    IF hits = {} THEN -1 ELSE Min(hits)

\* memchr(from, 0x00, n): the offset of the first null byte of
\* [from, from + n), -1 when there is none, -2 when the scan leaves the
\* readable memory before it finds one
memchr(from, n) ==
    LET stops == {q \in from .. (from + n - 1) : ~Readable(q) \/ Byte(q) = 0} IN
    IF stops = {} THEN -1
    ELSE IF Readable(Min(stops)) THEN Min(stops) ELSE -2

\* std::isprint in the "C" locale
isprint(c) == 32 <= c /\ c <= 126

Bytes(from, to) == [k \in 1 .. (to - from) |-> Byte(from + k - 1)]

\* read_pdb_name(ptr, end): FALSE stands for nullopt
read_pdb_name_ok(ptr, end) == \A it \in ptr .. (end - 1) : isprint(Byte(it))

read_le16(at) == Byte(at) + 256 * Byte(at + 1)
read_le32(at) == read_le16(at) + 65536 * read_le16(at + 2)
write_be16(v) == <<v \div 256, v % 256>>
write_be32(v) == write_be16(v \div 65536) \o write_be16(v % 65536)

\* a faulty variant: the identifier is copied as it lies in the image
guid_verbatim(at) == Bytes(at + 4, at + 20)

\* the sixteen bytes of guid[] that read_pdb fills for the marker at `at`
decode_guid(at) ==
    write_be32(read_le32(at + 4 + 0)) \o write_be16(read_le16(at + 4 + 4))
        \o write_be16(read_le16(at + 4 + 6)) \o Bytes(at + 4 + 8, at + 4 + 16)

\* hex::chars_upper
HexChar(n) == IF n < 10 THEN 48 + n ELSE 55 + n
\* hex::convert(dst, hex::chars_upper, src, size)
RECURSIVE hex_convert(_)
hex_convert(bs) ==
    IF bs = <<>> THEN <<>>
    ELSE <<HexChar(Head(bs) \div 16), HexChar(Head(bs) % 16)>> \o hex_convert(Tail(bs))

\* std::to_string of an unsigned value
RECURSIVE to_string(_)
to_string(n) ==
    IF n < 10 THEN <<48 + n>> ELSE to_string(n \div 10) \o <<48 + (n % 10)>>

\* the PdbCtx read_pdb returns for the marker at `at` with the name ending
\* before `stop`
make_ctx(at, stop) ==
    [guid |-> hex_convert(decode_guid(at)) \o to_string(read_le32(at + 4 + 16)),
     name |-> Bytes(at + 4 + 16 + 4, stop)]

\* a faulty variant: the scan resumes after the fixed part of the rejected record
resume_after_header(at) == at + 4 + 16 + 4

\* src = rsds + 1
resume(at) == at + 1

\* 4 magic + 16 guid + 4 age + 2 name
MinHeader == 4 + 16 + 4 + 2

(***************************************************************************)
(* The images scanned: one debug record, after an optional false start,    *)
(* followed by nothing, by a truncated marker or by a second record.       *)
(***************************************************************************)
Guid1 == <<1, 35, 69, 103, 137, 171, 205, 239, 254, 220, 186, 152, 118, 84, 50, 16>>
\* an identifier that itself holds the marker
Guid2 == rsds_magic \o <<10, 9, 8, 7, 6, 5, 4, 3, 2, 1, 200, 100>>
Guid3 == <<0, 17, 34, 51, 68, 85, 102, 119, 136, 153, 170, 187, 204, 221, 238, 255>>
Ages == {<<0, 0, 0, 0>>, <<16, 39, 0, 0>>, <<255, 255, 255, 127>>}
\* the bytes around the limits of the printable range
NameBytes == {31, 32, 126, 127}
Terminators == {<<>>, <<0>>}

Records1 ==
    {pre \o rsds_magic \o g \o a \o n \o t :
        pre \in {<<>>, <<82, 83>>}, g \in {Guid1, Guid2}, a \in Ages,
        n \in Lists(NameBytes, MaxNameLen), t \in Terminators}
Records2 ==
    {<<>>, rsds_magic \o <<65>>}
        \cup {rsds_magic \o Guid3 \o <<7, 0, 0, 0>> \o n \o t :
                n \in Lists({126, 127}, MaxNameLen), t \in Terminators}
Images == {r1 \o r2 : r1 \in Records1, r2 \in Records2}

\* what memchr may run into after the buffer: nothing readable, or bytes
Beyonds ==
    {[read |-> TRUE, mapped |-> FALSE, bytes |-> <<>>]}
        \cup {[read |-> TRUE, mapped |-> TRUE, bytes |-> f] :
                f \in {[k \in 1 .. (4 + 16 + 4) |-> 65],
                       [k \in 1 .. (4 + 16 + 4) |-> IF k = 1 THEN 0 ELSE 65],
                       [k \in 1 .. (4 + 16 + 4) |-> IF k = 2 THEN 0 ELSE 127]}}

\* no module is being built
InitNoModule ==
    /\ backend = "none"
    /\ globals = <<>>
    /\ types = <<>>
    /\ top_dies = <<>>
    /\ kids = NoKids
    /\ arg_span = NoSpan
    /\ InitObject

\* read_pdb(vsrc, src_size) is entered
InitScan ==
    /\ InitNoModule
    /\ buf \in Images
    /\ beyond = Unread
    /\ src = 0
    /\ src_size = Len(buf)
    /\ rsds = -1
    /\ name_end = -1
    /\ scan_pc = "search"
    /\ ctx = [guid |-> <<>>, name |-> <<>>]

NoModuleStep ==
    UNCHANGED <<backend, arg_span, pc, span_, pdbVars, dwarfVars, call, stack, ret>>

\* std::distance(rsds, &src[src_size])
size == (src + src_size) - rsds
NameStart == rsds + 4 + 16 + 4

\* rsds = search(...), and the failure when it is null
ScanSearch ==
    /\ scan_pc = "search"
    /\ rsds' = search(src, src_size)
    /\ scan_pc' = IF rsds' = -1 THEN "failed" ELSE "found"
    /\ UNCHANGED <<buf, beyond, src, src_size, name_end, ctx>>
    /\ NoModuleStep

\* kernel module is too small for pdb header
ScanTooSmall ==
    /\ scan_pc = "found"
    /\ size < MinHeader
    /\ scan_pc' = "failed"
    /\ UNCHANGED <<buf, beyond, src, src_size, rsds, name_end, ctx>>
    /\ NoModuleStep

\* the memory memchr meets: what follows the buffer shows once the scan
\* passes the end of the buffer, and stays what it is from then on
Met ==
    IF beyond.read \/ \E q \in NameStart .. (Len(buf) - 1) : buf[q + 1] = 0
    THEN {beyond} ELSE Beyonds

\* name_end = memchr(&rsds[4 + 16 + 4], 0x00, size)
ScanMemchr ==
    /\ scan_pc = "found"
    /\ size >= MinHeader
    /\ UNCHANGED <<buf, src, src_size, rsds, ctx>>
    /\ \E b \in Met :
          /\ beyond' = b
          /\ name_end' = memchr(NameStart, size)'
    /\ scan_pc' = IF name_end' = -2 THEN "fault" ELSE "scanned"
    /\ NoModuleStep

\* missing null-terminating byte
ScanNoTerminator ==
    /\ scan_pc = "scanned"
    /\ name_end = -1
    /\ scan_pc' = "failed"
    /\ UNCHANGED <<buf, beyond, src, src_size, rsds, name_end, ctx>>
    /\ NoModuleStep

\* the name is printable: the PdbCtx is returned
ScanAccept ==
    /\ scan_pc = "scanned"
    /\ name_end >= 0
    /\ read_pdb_name_ok(NameStart, name_end)
    /\ ctx' = make_ctx(rsds, name_end)
    /\ scan_pc' = "done"
    /\ UNCHANGED <<buf, beyond, src, src_size, rsds, name_end>>
    /\ NoModuleStep

\* the name is not printable: src = rsds + 1; src_size = end - src
ScanReject ==
    /\ scan_pc = "scanned"
    /\ name_end >= 0
    /\ ~read_pdb_name_ok(NameStart, name_end)
    /\ src' = resume(rsds)
    /\ src_size' = (src + src_size) - resume(rsds)
    /\ scan_pc' = "search"
    /\ UNCHANGED <<buf, beyond, rsds, name_end, ctx>>
    /\ NoModuleStep

NextScan ==
    \/ ScanSearch \/ ScanTooSmall \/ ScanMemchr \/ ScanNoTerminator
    \/ ScanAccept \/ ScanReject

SpecScan == InitScan /\ [][NextScan]_modVars

(***************************************************************************)
(* The signature scanner (SpecScan).                                       *)
(***************************************************************************)
\* where byte k of the rendered identifier lies in the image's identifier
FieldOrder == <<3, 2, 1, 0, 5, 4, 7, 6, 8, 9, 10, 11, 12, 13, 14, 15>>
IsUpperHex(c) == c \in (48 .. 57) \cup (65 .. 70)
HexVal(c) == IF c <= 57 THEN c - 48 ELSE c - 55
RECURSIVE DecVal(_)
DecVal(ds) ==
    IF ds = <<>> THEN 0
    ELSE 10 * DecVal(SubSeq(ds, 1, Len(ds) - 1)) + (ds[Len(ds)] - 48)
MarkerAt(at) ==
    /\ at >= 0 /\ at + 4 <= Len(buf)
    /\ buf[at + 1] = 82 /\ buf[at + 2] = 83 /\ buf[at + 3] = 68 /\ buf[at + 4] = 83
\* the first null byte at or after an offset, in the memory the scan has read
FirstNull(from) ==
    Min({q \in from .. (Len(buf) + Len(beyond.bytes) - 1) : Byte(q) = 0})

\* C4: the identifier returned for the marker accepted at p is 32 uppercase
\* hexadecimal characters rendering bytes p+4..p+19 in the order (4 reversed,
\* 2 reversed, 2 reversed, 8 verbatim), then the decimal little-endian age of
\* p+20..p+23; the name is the bytes from p+24 to the first null byte, all
\* printable.
C4_AcceptedRecordDecoded ==
    scan_pc = "done" =>
        LET id == ctx.guid
            age == SubSeq(id, 33, Len(id)) IN
        /\ MarkerAt(rsds)
        /\ Len(id) > 32
        /\ \A k \in 1 .. 32 : IsUpperHex(id[k])
        /\ \A k \in 0 .. 15 :
              16 * HexVal(id[2 * k + 1]) + HexVal(id[2 * k + 2])
                  = Byte(rsds + 4 + FieldOrder[k + 1])
        /\ \A k \in 1 .. Len(age) : age[k] \in 48 .. 57
        /\ Len(age) > 1 => age[1] # 48
        /\ DecVal(age) = Byte(rsds + 20) + 256 * Byte(rsds + 21)
                            + 65536 * Byte(rsds + 22) + 16777216 * Byte(rsds + 23)
        /\ Len(ctx.name) = FirstNull(rsds + 24) - (rsds + 24)
        /\ \A k \in 1 .. Len(ctx.name) :
              /\ ctx.name[k] = Byte(rsds + 24 + k - 1)
              /\ ctx.name[k] \in 32 .. 126

\* C4: a record with an identifier of sixteen different bytes, a non-zero
\* age and a name of the greatest length was accepted
C4_Witness ==
    /\ scan_pc = "done"
    /\ Bytes(rsds + 4, rsds + 20) = Guid1
    /\ Byte(rsds + 21) # 0
    /\ Len(ctx.name) = MaxNameLen

\* enough bytes, a null-terminated name inside the buffer, a printable name
WellFormed(at) ==
    /\ MarkerAt(at)
    /\ Len(buf) - at >= 26
    /\ \E q \in (at + 24) .. (Len(buf) - 1) :
          /\ buf[q + 1] = 0
          /\ \A j \in (at + 24) .. (q - 1) : buf[j + 1] \in 32 .. 126
Markers == {at \in 0 .. (Len(buf) - 4) : MarkerAt(at)}
FirstWellFormed == Min({at \in Markers : WellFormed(at)})
\* a malformed occurrence is followed later by a well-formed one
MalformedThenWellFormed ==
    \E p1, p2 \in Markers : p1 < p2 /\ ~WellFormed(p1) /\ WellFormed(p2)
Scanning == scan_pc \in {"search", "found", "scanned"}

\* C5: when a malformed occurrence is followed later by a well-formed one the
\* scan does not fail: it goes on (one byte after each marker it rejects, all
\* of them malformed, never past the first well-formed occurrence, never
\* outside the buffer) until it returns the first well-formed occurrence.
C5_RejectAndResume ==
    (scan_pc # "off" /\ MalformedThenWellFormed) =>
        /\ scan_pc \notin {"failed", "fault"}
        /\ Scanning => ENABLED NextScan
        /\ src <= FirstWellFormed
        /\ src + src_size = Len(buf)
        /\ src > 0 => (MarkerAt(src - 1) /\ ~WellFormed(src - 1))
        /\ beyond = Unread
        /\ scan_pc = "done" =>
              /\ rsds = FirstWellFormed
              /\ Len(ctx.guid) > 32
              /\ ctx.name = Bytes(rsds + 24, FirstNull(rsds + 24))

\* C5: the scan returned an occurrence after it had rejected another
C5_Witness ==
    /\ scan_pc = "done" /\ MalformedThenWellFormed
    /\ src > 0 /\ rsds >= src


\* whether the name that starts 24 bytes after the marker has a null byte
\* inside the buffer
TerminatedInside(at) == \E q \in (at + 24) .. (Len(buf) - 1) : buf[q + 1] = 0

\* C11: every byte the scanner inspects lies inside the buffer: the memory
\* after the buffer is never read, the null-terminator search neither faults
\* nor stops at or after the end of the buffer, and a marker whose name has
\* no null byte inside the buffer leads to failure.
C11_ScanStaysInsideBuffer ==
    /\ beyond = Unread
    /\ scan_pc # "fault"
    /\ scan_pc \in {"scanned", "done"} /\ name_end >= 0 => name_end < Len(buf)
    /\ scan_pc \in {"scanned", "done"} /\ ~TerminatedInside(rsds) => name_end = -1

============================================================================
